---- MODULE Spec2Model ----
(***************************************************************************)
(* Model of mailit (src/mailit/__init__.py): the Recipient record, the     *)
(* Mail composer (global merge vars, images, send with its grouper) and    *)
(* the csvfile_to_recipients generator.                                    *)
(*                                                                         *)
(* Python strings that the code transforms or matches (upper(), title(),   *)
(* re.match, basename/splitext) are sequences of one-character strings;    *)
(* strings the code only stores are TLA+ strings.                          *)
(***************************************************************************)
EXTENDS Integers, Sequences, FiniteSets, TLC

VARIABLES
    merge_vars,   \* Mail._merge_vars: list of {name, content}
    images,       \* Mail._images: dict key -> {content, type, name}
    call,         \* the last Mail method called, with its arguments
    err,          \* the exception the last Mail method raised, or "none"
    ncalls,       \* number of Mail method calls made so far
    history,      \* every image call so far, with its outcome
    input,        \* the arguments of send and of csvfile_to_recipients
    it,           \* the recipients iterator send consumes
    zl,           \* the zip_longest object built by grouper
    pc,           \* position of send: "loop", "returned", "raised"
    result,       \* send's local list of transport responses
    sent,         \* messages handed to _client.messages.send, in call order
    batches,      \* the tuples grouper has produced so far
    error         \* the exception that left send, or "none"

mailvars == <<merge_vars, images, call, err, ncalls, history>>
sendvars == <<input, it, zl, pc, result, sent, batches, error>>
vars == <<merge_vars, images, call, err, ncalls, history,
          input, it, zl, pc, result, sent, batches, error>>

\* Python's None.
None == "None"

------------------------------------------------------------------------------
\* Bounds of the model.

\* Mail method calls per behaviour.
MaxCalls == 3
\* Length of a recipient list handed to send.
MaxLen == 4
\* Largest batch_size handed to send.
MaxBatch == 3
\* Data rows of a csv file.
MaxRows == 2

------------------------------------------------------------------------------
\* Strings.

LowerAlpha ==
    <<"a","b","c","d","e","f","g","h","i","j","k","l","m",
      "n","o","p","q","r","s","t","u","v","w","x","y","z">>

UpperAlpha ==
    <<"A","B","C","D","E","F","G","H","I","J","K","L","M",
      "N","O","P","Q","R","S","T","U","V","W","X","Y","Z">>

IsLowerChar(c) == \E i \in 1..Len(LowerAlpha) : LowerAlpha[i] = c
IsUpperChar(c) == \E i \in 1..Len(UpperAlpha) : UpperAlpha[i] = c
IsCased(c) == IsLowerChar(c) \/ IsUpperChar(c)

UpperChar(c) ==
    IF IsLowerChar(c)
    THEN UpperAlpha[CHOOSE i \in 1..Len(LowerAlpha) : LowerAlpha[i] = c]
    ELSE c

LowerChar(c) ==
    IF IsUpperChar(c)
    THEN LowerAlpha[CHOOSE i \in 1..Len(UpperAlpha) : UpperAlpha[i] = c]
    ELSE c

\* str.upper()
Upper(s) == [i \in 1..Len(s) |-> UpperChar(s[i])]

\* str.title(): a cased character is upper-cased when it follows an uncased
\* character (or starts the string) and lower-cased otherwise.
Title(s) ==
    [i \in 1..Len(s) |->
        IF i = 1 \/ ~IsCased(s[i - 1]) THEN UpperChar(s[i]) ELSE LowerChar(s[i])]

\* The element of a one-element set; The({e(x) : x \in {v}}) is e(v) with v
\* evaluated once.
The(S) == CHOOSE x \in S : TRUE

\* s without its i-th element (list.remove / del on a list position).
RemoveAt(s, i) == [j \in 1..(Len(s) - 1) |-> IF j < i THEN s[j] ELSE s[j + 1]]

------------------------------------------------------------------------------
\* Mail: global merge vars.

\* Variant of AddGlobalMergeVar that stores the name as given.
AddGlobalMergeVarRaw(mv, name, content) ==
    Append(mv, [name |-> name, content |-> content])

\* Mail.add_global_merge_var: the list after the call.
AddGlobalMergeVar(mv, name, content) ==
    Append(mv, [name |-> Upper(name), content |-> content])

\* first_true(self._merge_vars, pred=lambda x: x.get('name') == name): the
\* first item whose name is `name`; found = FALSE stands for the default,
\* False, which no item of the list equals.
first_true(mv, name) ==
    IF \E i \in 1..Len(mv) : mv[i].name = name
    THEN [found |-> TRUE,
          item  |-> mv[CHOOSE i \in 1..Len(mv) :
                          /\ mv[i].name = name
                          /\ \A j \in 1..(i - 1) : mv[j].name # name]]
    ELSE [found |-> FALSE, item |-> [name |-> <<>>, content |-> ""]]

\* list.remove(x): deletes the first element equal to x, ValueError if none.
ListRemove(mv, x) ==
    IF x.found /\ \E i \in 1..Len(mv) : mv[i] = x.item
    THEN [err  |-> "none",
          list |-> RemoveAt(mv, CHOOSE i \in 1..Len(mv) :
                                   /\ mv[i] = x.item
                                   /\ \A j \in 1..(i - 1) : mv[j] # x.item)]
    ELSE [err |-> "ValueError", list |-> mv]

\* Mail.remove_global_merge_var: the outcome and the list after the call.
RemoveGlobalMergeVar(mv, name) == ListRemove(mv, first_true(mv, Upper(name)))

------------------------------------------------------------------------------
\* Mail: images.

\* Index of the last occurrence of token c in s, 0 if none (str.rfind).
RFind(s, c) ==
    IF \E i \in 1..Len(s) : s[i] = c
    THEN CHOOSE i \in 1..Len(s) : s[i] = c /\ \A j \in (i + 1)..Len(s) : s[j] # c
    ELSE 0

\* os.path.basename: what follows the last "/".
Basename(p) == SubSeq(p, RFind(p, "/") + 1, Len(p))

\* Position of the dot at which os.path.splitext splits p, 0 if it does not
\* split: the last dot, when it follows the last "/" and some character
\* between them is not a dot.
SplitDot(p) ==
    LET sep == RFind(p, "/")
        dot == RFind(p, ".")
    IN  IF dot > sep /\ \E i \in (sep + 1)..(dot - 1) : p[i] # "."
        THEN dot ELSE 0

\* os.path.splitext(p)[0] and [1]
SplitextRoot(p) == IF SplitDot(p) = 0 THEN p ELSE SubSeq(p, 1, SplitDot(p) - 1)
SplitextExt(p) == IF SplitDot(p) = 0 THEN <<>> ELSE SubSeq(p, SplitDot(p), Len(p))

\* name = os.path.splitext(os.path.basename(filename))[0]
ImageKey(filename) == SplitextRoot(Basename(filename))

\* mimetypes.guess_type(filename)[0]: the type the table gives the
\* (lower-cased) extension, None for an extension it does not know.
GuessType(filename) ==
    LET ext == [i \in 1..Len(SplitextExt(filename)) |->
                    LowerChar(SplitextExt(filename)[i])]
    IN  CASE ext = <<".", "p", "n", "g">> -> "image/png"
          [] ext = <<".", "j", "p", "g">> -> "image/jpeg"
          [] ext = <<".", "g", "i", "f">> -> "image/gif"
          [] OTHER -> None

\* The base64 alphabet; B64Pad is "=".
B64Alphabet ==
    <<"A","B","C","D","E","F","G","H","I","J","K","L","M",
      "N","O","P","Q","R","S","T","U","V","W","X","Y","Z",
      "a","b","c","d","e","f","g","h","i","j","k","l","m",
      "n","o","p","q","r","s","t","u","v","w","x","y","z",
      "0","1","2","3","4","5","6","7","8","9","+","/">>
B64Pad == "="

\* base64.b64encode(content).decode(): every group of three bytes becomes
\* four characters; a last group of one or two bytes is padded with "=".
RECURSIVE B64Encode(_)
B64Encode(bytes) ==
    IF Len(bytes) = 0 THEN <<>>
    ELSE LET b1 == bytes[1]
             b2 == IF Len(bytes) >= 2 THEN bytes[2] ELSE 0
             b3 == IF Len(bytes) >= 3 THEN bytes[3] ELSE 0
             c1 == B64Alphabet[(b1 \div 4) + 1]
             c2 == B64Alphabet[((b1 % 4) * 16 + (b2 \div 16)) + 1]
             c3 == IF Len(bytes) >= 2
                   THEN B64Alphabet[((b2 % 16) * 4 + (b3 \div 64)) + 1]
                   ELSE B64Pad
             c4 == IF Len(bytes) >= 3 THEN B64Alphabet[(b3 % 64) + 1] ELSE B64Pad
         IN  <<c1, c2, c3, c4>> \o
             (IF Len(bytes) > 3 THEN B64Encode(SubSeq(bytes, 4, Len(bytes)))
              ELSE <<>>)

\* Filenames are sequences of path tokens: directory and stem names, "/", "."
\* and the characters of the extension.  The files open(filename, 'rb') finds,
\* with their bytes.
ImageA == <<"image1">>
ImageB == <<"img", "/", "image1", ".", "p", "n", "g">>
ImageC == <<"image2", ".", "J", "P", "G">>
ImageD == <<".", "hidden">>
FileNames == {ImageA, ImageB, ImageC, ImageD}
BytesJpeg == <<255, 216, 255, 255, 255>>
BytesPng == <<137, 80>>
DiskHas(filename) == filename \in {ImageB, ImageC}
DiskRead(filename) == IF filename = ImageB THEN BytesPng ELSE BytesJpeg

\* A file argument: not given (None), or a file object holding `data`.
NoFile == [given |-> FALSE, data |-> <<>>]
FileOf(data) == [given |-> TRUE, data |-> data]

\* Variant of AddImage that keeps the entry a key already has.
AddImageKeepFirst(imgs, filename, file, mimetype) ==
    LET mt   == IF mimetype = None THEN GuessType(filename) ELSE mimetype
        name == ImageKey(filename)
    IN  IF ~file.given /\ ~DiskHas(filename)
        THEN [err |-> "FileNotFoundError", images |-> imgs]
        ELSE LET content == IF file.given THEN file.data ELSE DiskRead(filename)
                 entry   == [content |-> B64Encode(content),
                             type    |-> mt,
                             name    |-> name]
             IN  [err    |-> "none",
                  images |-> [k \in (DOMAIN imgs) \cup {name} |->
                                 IF k \in DOMAIN imgs THEN imgs[k] ELSE entry]]

\* Mail.add_image: the outcome and the dict after the call.
AddImage(imgs, filename, file, mimetype) ==
    LET mt   == IF mimetype = None THEN GuessType(filename) ELSE mimetype
        name == ImageKey(filename)
    IN  IF ~file.given /\ ~DiskHas(filename)
        THEN [err |-> "FileNotFoundError", images |-> imgs]
        ELSE LET content == IF file.given THEN file.data ELSE DiskRead(filename)
                 entry   == [content |-> B64Encode(content),
                             type    |-> mt,
                             name    |-> name]
             IN  [err    |-> "none",
                  images |-> [k \in (DOMAIN imgs) \cup {name} |->
                                 IF k = name THEN entry ELSE imgs[k]]]

\* Variant of RemoveImage that ignores a missing key (dict.pop(key, None)).
RemoveImageIgnoreMissing(imgs, key) ==
    [err    |-> "none",
     images |-> [k \in (DOMAIN imgs) \ {key} |-> imgs[k]]]

\* Mail.remove_image: the outcome and the dict after the call.
RemoveImage(imgs, key) ==
    IF key \in DOMAIN imgs
    THEN [err    |-> "none",
          images |-> [k \in (DOMAIN imgs) \ {key} |-> imgs[k]]]
    ELSE [err |-> "KeyError", images |-> imgs]

------------------------------------------------------------------------------
\* Mail: the object and its method calls.

\* Arguments the calls are made with.
MergeVarNames == {<<"t","e","s","t">>, <<"T","e","s","t">>, <<"a","-","t">>}
MergeVarContents == {"value", "another-value"}
FileArgs == {NoFile, FileOf(BytesJpeg)}
MimeArgs == {None, "image/jpeg"}
ImageKeys == {ImageKey(f) : f \in FileNames} \cup {ImageC}

\* A call record: the method and its arguments (unused ones at their defaults).
Call(op, name, content, file, mimetype) ==
    [op |-> op, name |-> name, content |-> content, file |-> file,
     mimetype |-> mimetype]

\* Mail.__init__ / Mail.clear: empty containers.
MailInit ==
    /\ merge_vars = <<>>
    /\ images = <<>>
    /\ call = Call("__init__", <<>>, "", NoFile, None)
    /\ err = "none"
    /\ ncalls = 0
    /\ history = <<>>

\* No send in progress.
SendIdle ==
    /\ input = [kind |-> "none"]
    /\ it = [kind |-> "none"]
    /\ zl = [n |-> 0, dead |-> {}]
    /\ pc = "idle"
    /\ result = <<>>
    /\ sent = <<>>
    /\ batches = <<>>
    /\ error = "none"

\* The state after Mail(...) was constructed.
Init == MailInit /\ SendIdle

add_global_merge_var(name, content) ==
    /\ ncalls < MaxCalls
    /\ merge_vars' = AddGlobalMergeVar(merge_vars, name, content)
    /\ call' = Call("add_global_merge_var", name, content, NoFile, None)
    /\ err' = "none"
    /\ ncalls' = ncalls + 1
    /\ UNCHANGED <<images, history>>
    /\ UNCHANGED sendvars

remove_global_merge_var(name) ==
    /\ ncalls < MaxCalls
    /\ LET r == RemoveGlobalMergeVar(merge_vars, name)
       IN  /\ merge_vars' = r.list
           /\ err' = r.err
    /\ call' = Call("remove_global_merge_var", name, "", NoFile, None)
    /\ ncalls' = ncalls + 1
    /\ UNCHANGED <<images, history>>
    /\ UNCHANGED sendvars

add_image(filename, file, mimetype) ==
    /\ ncalls < MaxCalls
    /\ LET r == AddImage(images, filename, file, mimetype)
       IN  /\ images' = r.images
           /\ err' = r.err
           /\ history' = Append(history,
                  [call |-> Call("add_image", filename, "", file, mimetype),
                   err  |-> r.err])
    /\ call' = Call("add_image", filename, "", file, mimetype)
    /\ ncalls' = ncalls + 1
    /\ UNCHANGED merge_vars
    /\ UNCHANGED sendvars

remove_image(key) ==
    /\ ncalls < MaxCalls
    /\ LET r == RemoveImage(images, key)
       IN  /\ images' = r.images
           /\ err' = r.err
           /\ history' = Append(history,
                  [call |-> Call("remove_image", key, "", NoFile, None),
                   err  |-> r.err])
    /\ call' = Call("remove_image", key, "", NoFile, None)
    /\ ncalls' = ncalls + 1
    /\ UNCHANGED merge_vars
    /\ UNCHANGED sendvars

NextMail ==
    \/ \E name \in MergeVarNames, content \in MergeVarContents :
          add_global_merge_var(name, content)
    \/ \E name \in MergeVarNames : remove_global_merge_var(name)
    \/ \E filename \in FileNames, file \in FileArgs, mimetype \in MimeArgs :
          add_image(filename, file, mimetype)
    \/ \E key \in ImageKeys : remove_image(key)

SpecMail == Init /\ [][NextMail]_vars

------------------------------------------------------------------------------
\* Recipient.

\* An optional value: absent (None), or present with `value`.
Absent == [given |-> FALSE, value |-> <<>>]
Present(v) == [given |-> TRUE, value |-> v]

KeyEmail == <<"e","m","a","i","l">>
KeyFirstName == <<"f","i","r","s","t","_","n","a","m","e">>
KeyLastName == <<"l","a","s","t","_","n","a","m","e">>
KeyName == <<"n","a","m","e">>
KeyFoobar == <<"f","o","o","b","a","r">>
KeyCount == <<"c","o","u","n","t">>

\* kwargs is an ordered dict: a sequence of [key, value] without repeated keys.
HasKey(kwargs, key) == \E i \in 1..Len(kwargs) : kwargs[i].key = key
ValueOf(kwargs, key) ==
    kwargs[CHOOSE i \in 1..Len(kwargs) : kwargs[i].key = key].value

\* kwargs.get(key)
KwGet(kwargs, key) ==
    IF HasKey(kwargs, key) THEN Present(ValueOf(kwargs, key)) ELSE Absent

\* Truth value of kwargs.get(key): present and not the empty string.
Truthy(opt) == opt.given /\ Len(opt.value) > 0

\* The local function name() of Recipient.__init__.
DerivedName(kwargs) ==
    LET first == KwGet(kwargs, KeyFirstName)
        last  == KwGet(kwargs, KeyLastName)
    IN  IF Truthy(first) /\ Truthy(last)
        THEN first.value \o <<" ">> \o last.value
        ELSE IF Truthy(first) THEN first.value
        ELSE <<>>

\* Variant of Recipient that also lists the email among the merge vars.
RecipientWithEmailVar(email, kwargs) ==
    [email      |-> email,
     first_name |-> KwGet(kwargs, KeyFirstName),
     last_name  |-> KwGet(kwargs, KeyLastName),
     name       |-> Title(IF HasKey(kwargs, KeyName)
                          THEN ValueOf(kwargs, KeyName)
                          ELSE DerivedName(kwargs)),
     merge_vars |-> <<[name |-> Upper(KeyEmail), content |-> email]>> \o
                    [i \in 1..Len(kwargs) |->
                        [name |-> Upper(kwargs[i].key),
                         content |-> kwargs[i].value]]]

\* Recipient(email, **kwargs)
Recipient(email, kwargs) ==
    [email      |-> email,
     first_name |-> KwGet(kwargs, KeyFirstName),
     last_name  |-> KwGet(kwargs, KeyLastName),
     name       |-> Title(IF HasKey(kwargs, KeyName)
                          THEN ValueOf(kwargs, KeyName)
                          ELSE DerivedName(kwargs)),
     merge_vars |-> [i \in 1..Len(kwargs) |->
                        [name |-> Upper(kwargs[i].key),
                         content |-> kwargs[i].value]]]

------------------------------------------------------------------------------
\* csvfile_to_recipients.

\* re.match(r"[^@]+@[^@]+\.[^@]+", s) succeeds from position `start`: one or
\* more non-@, an @, one or more non-@, a dot, one or more non-@.
NoAt(s, from, to) == from <= to /\ \A i \in from..to : s[i] # "@"
MatchAt(s, start) ==
    \E at \in 1..Len(s), dot \in 1..Len(s), end \in 1..Len(s) :
        /\ s[at] = "@"
        /\ s[dot] = "."
        /\ NoAt(s, start, at - 1)
        /\ NoAt(s, at + 1, dot - 1)
        /\ NoAt(s, dot + 1, end)

\* Variant of ReMatch that searches the whole value (re.search).
ReSearch(s) == \E start \in 1..Len(s) : MatchAt(s, start)

\* re.match: the pattern must match at the start of the value.
ReMatch(s) == MatchAt(s, 1)

\* Attributes every tuple has, and the bound method getattr returns for them.
TupleAttrs == {KeyCount, <<"i","n","d","e","x">>}
BoundMethod == <<"<bound method>">>
FieldIndex(fields, field) == CHOOSE i \in 1..Len(fields) : fields[i] = field

\* Variant of GetAttr with a default, getattr(data, field, ''), for a missing
\* attribute.
GetAttrOrEmpty(fields, row, field) ==
    IF \E i \in 1..Len(fields) : fields[i] = field
    THEN [err |-> "none",
          value |-> row[CHOOSE i \in 1..Len(fields) : fields[i] = field]]
    ELSE [err |-> "none", value |-> <<>>]

\* getattr(data, field) of a Row: the column's value for a field of the row
\* type, a bound method for an attribute every tuple has, AttributeError
\* otherwise.
GetAttr(fields, row, field) ==
    IF \E i \in 1..Len(fields) : fields[i] = field
    THEN [err |-> "none", value |-> row[FieldIndex(fields, field)]]
    ELSE IF field \in TupleAttrs
    THEN [err |-> "none", value |-> BoundMethod]
    ELSE [err |-> "AttributeError", value |-> <<>>]

\* The first field, in the order of Row._fields, whose value re.match accepts.
DetectEmailField(fields, row) ==
    IF \E i \in 1..Len(fields) : ReMatch(row[i])
    THEN Present(fields[CHOOSE i \in 1..Len(fields) :
                            /\ ReMatch(row[i])
                            /\ \A j \in 1..(i - 1) : ~ReMatch(row[j])])
    ELSE Absent

\* data._asdict()
AsDict(fields, row) == [i \in 1..Len(fields) |-> [key |-> fields[i], value |-> row[i]]]

\* kwargs.update({key: value}): replaces the value of a key the dict has,
\* appends the key otherwise.
DictUpdate(kwargs, key, value) ==
    IF HasKey(kwargs, key)
    THEN [i \in 1..Len(kwargs) |->
             IF kwargs[i].key = key THEN [key |-> key, value |-> value]
             ELSE kwargs[i]]
    ELSE Append(kwargs, [key |-> key, value |-> value])

\* Recipient(**kwargs): the email entry binds the email parameter, the other
\* entries are the keyword arguments.
RecipientFromKwargs(kwargs) ==
    The({Recipient(email, rest) :
            email \in {ValueOf(kwargs, KeyEmail)},
            rest \in {SelectSeq(kwargs, LAMBDA e : e.key # KeyEmail)}})

\* kwargs = {}; kwargs.update(data._asdict());
\* kwargs.update({"email": getattr(data, email_field)}); Recipient(**kwargs)
RowRecipient(fields, row, email) ==
    The({RecipientFromKwargs(kwargs) :
            kwargs \in {DictUpdate(AsDict(fields, row), KeyEmail, email)}})

\* Outcomes of next() on an iterator.
Item(g, r) == [kind |-> "item", it |-> g, item |-> r, err |-> "none"]
Stop(g) == [kind |-> "stop", it |-> g, item |-> <<>>, err |-> "none"]
Raise(g, e) == [kind |-> "error", it |-> g, item |-> <<>>, err |-> e]

\* The generator after it finished or raised.
Finished(g) == [g EXCEPT !.gpc = "done", !.items = <<>>]

\* One pass of the loop `for data in map(Row._make, reader)`.
GenLoop(g) ==
    IF g.items = <<>> THEN Stop(Finished(g))
    ELSE LET row == Head(g.items)
             a   == GetAttr(g.fields, row, g.email_field.value)
         IN  IF Len(row) # Len(g.fields) THEN Raise(Finished(g), "TypeError")
             ELSE IF a.err # "none" THEN Raise(Finished(g), a.err)
             ELSE Item([g EXCEPT !.gpc = "loop", !.items = Tail(g.items)],
                       RowRecipient(g.fields, row, a.value))

\* Variant of GenDetect that does not yield the row it detected the field on.
GenDetectSkipFirst(g) ==
    IF g.items = <<>>
    THEN [kind |-> "genstop", it |-> Finished(g), item |-> <<>>, err |-> "none"]
    ELSE LET row == Head(g.items)
             f   == DetectEmailField(g.fields, row)
         IN  IF Len(row) # Len(g.fields) THEN Raise(Finished(g), "TypeError")
             ELSE IF ~f.given THEN Raise(Finished(g), "Exception")
             ELSE GenLoop([g EXCEPT !.gpc = "loop", !.items = Tail(g.items),
                                    !.email_field = f])

\* The generator's first pass when email_field is None: the first row is read,
\* the email field detected and the row's Recipient yielded.  next(reader) on
\* a file without data rows raises StopIteration inside the generator: kind
\* "genstop", which GeneratorStops resolves.
GenDetect(g) ==
    IF g.items = <<>>
    THEN [kind |-> "genstop", it |-> Finished(g), item |-> <<>>, err |-> "none"]
    ELSE LET row == Head(g.items)
             f   == DetectEmailField(g.fields, row)
         IN  IF Len(row) # Len(g.fields) THEN Raise(Finished(g), "TypeError")
             ELSE IF ~f.given THEN Raise(Finished(g), "Exception")
             ELSE Item([g EXCEPT !.gpc = "loop", !.items = Tail(g.items),
                                 !.email_field = f],
                       RowRecipient(g.fields, row,
                                    GetAttr(g.fields, row, f.value).value))

\* next() on the iterator send consumes: a list iterator, or the generator
\* csvfile_to_recipients returned.
IterNext(g) ==
    IF g.kind = "list"
    THEN IF g.items = <<>> THEN Stop(g)
         ELSE Item([g EXCEPT !.items = Tail(g.items)], Head(g.items))
    ELSE IF g.gpc = "done" THEN Stop(g)
    ELSE IF g.gpc = "start" /\ ~g.email_field.given THEN GenDetect(g)
    ELSE GenLoop(g)

------------------------------------------------------------------------------
\* Mail.send.

\* The fillvalue None in a slot of a batch.
Fill == [none |-> TRUE]

\* One pass of zip_longest over its n references to the same iterator, from
\* slot `slot` on.  `dead` holds the slots whose iterator was found exhausted
\* (and replaced by the fillvalue); when the last active one is exhausted the
\* tuple under construction is dropped and zip_longest stops.
RECURSIVE ZipSlots(_, _, _, _, _)
ZipSlots(g, dead, n, slot, acc) ==
    IF slot > n
    THEN [kind |-> "batch", it |-> g, dead |-> dead, batch |-> acc, err |-> "none"]
    ELSE IF slot \in dead
    THEN ZipSlots(g, dead, n, slot + 1, Append(acc, Fill))
    ELSE The({
           IF r.kind = "item"
           THEN ZipSlots(r.it, dead, n, slot + 1, Append(acc, r.item))
           ELSE IF r.kind = "error"
           THEN [kind |-> "error", it |-> r.it, dead |-> 1..n,
                 batch |-> <<>>, err |-> r.err]
           ELSE IF r.kind = "genstop"
           THEN [kind |-> "genstop", it |-> r.it, dead |-> 1..n,
                 batch |-> <<>>, err |-> "none"]
           ELSE IF Cardinality(dead \cup {slot}) = n
           THEN [kind |-> "stop", it |-> r.it, dead |-> 1..n,
                 batch |-> <<>>, err |-> "none"]
           ELSE ZipSlots(r.it, dead \cup {slot}, n, slot + 1, Append(acc, Fill))
         : r \in {IterNext(g)}})

\* Variant of GrouperNext that does not pad the last batch.
GrouperNextNoPad(g, z) ==
    The({[r EXCEPT !.batch = SelectSeq(r.batch, LAMBDA x : x # Fill)] :
            r \in {ZipSlots(g, z.dead, z.n, 1, <<>>)}})

\* next() on grouper(recipients, batch_size): the next batch, or the end of
\* the iteration, or the exception the iterator raised.
GrouperNext(g, z) ==
    IF Cardinality(z.dead) = z.n
    THEN [kind |-> "stop", it |-> g, dead |-> z.dead, batch |-> <<>>,
          err |-> "none"]
    ELSE ZipSlots(g, z.dead, z.n, 1, <<>>)

\* The recipients of a batch: `for recipient in batch if recipient is not None`.
Real(batch) == SelectSeq(batch, LAMBDA x : x # Fill)

\* What Mail.__init__ was given.
Subject == "subject"
FromName == "from_name"
FromEmail == "from_email"
Template == "string template"

\* The message send composes for a batch.
Message(batch) ==
    LET real == Real(batch)
    IN  [from_email          |-> FromEmail,
         from_name           |-> FromName,
         to                  |-> [i \in 1..Len(real) |->
                                     [name  |-> real[i].name,
                                      email |-> real[i].email,
                                      type  |-> "to"]],
         preserve_recipients |-> FALSE,
         subject             |-> Subject,
         important           |-> FALSE,
         merge               |-> TRUE,
         merge_language      |-> "mailchimp",
         global_merge_vars   |-> merge_vars,
         merge_vars          |-> [i \in 1..Len(real) |->
                                     [rcpt |-> real[i].email,
                                      vars |-> real[i].merge_vars]],
         html                |-> Template,
         images              |-> {images[k] : k \in DOMAIN images}]

\* The response of the transport to a message it accepted: one status per
\* recipient.
Response(message) ==
    [i \in 1..Len(message.to) |-> [email |-> message.to[i].email, status |-> "sent"]]

\* Exceptions the transport raises.
TransportErrors == {"mandrill.Error", "ConnectionError"}

\* Values of csv cells and of recipients' fields.
ValueEmail == <<"a","@","b",".","c">>
ValueAtFirst == <<"@","a","@","b",".","c">>
ValuePlain == <<"j","o">>
Values == {ValueEmail, ValueAtFirst, ValuePlain}

\* Recipients of a list handed to send.
RecipientPool ==
    {Recipient(ValueEmail, <<[key |-> KeyFirstName, value |-> ValuePlain]>>),
     Recipient(<<"b","@","b",".","c">>, <<>>)}

RECURSIVE SeqsUpTo(_, _)
\* All sequences over S of length at most n.
SeqsUpTo(S, n) ==
    IF n = 0 THEN {<<>>}
    ELSE LET shorter == SeqsUpTo(S, n - 1)
         IN  shorter \cup {Append(q, x) : q \in shorter, x \in S}

\* Row._fields of the files read, the rows a file has under such a header (of
\* the header's width, or one cell short) and the email_field arguments.
Headers == {<<KeyEmail, KeyFirstName>>, <<KeyFoobar, KeyFirstName>>}
RowsOf(fields) ==
    {row \in SeqsUpTo(Values, Len(fields)) : Len(row) = Len(fields)}
        \cup {<<ValueEmail>>}
EmailFieldArgs == {Absent, Present(KeyEmail), Present(KeyFirstName), Present(KeyCount)}

\* send(recipients, batch_size, dry_run) on a list of recipients: up to the
\* loop over grouper(recipients, batch_size).
SendList(recipients, batch_size, dry_run) ==
    /\ pc = "idle"
    /\ input' = [kind |-> "list", recipients |-> recipients, fields |-> <<>>,
                 rows |-> <<>>, email_field |-> Absent,
                 batch_size |-> batch_size, dry_run |-> dry_run]
    /\ it' = [kind |-> "list", items |-> recipients, fields |-> <<>>,
              email_field |-> Absent, gpc |-> "done"]
    /\ zl' = [n |-> batch_size, dead |-> {}]
    /\ pc' = "loop"
    /\ result' = <<>>
    /\ UNCHANGED <<sent, batches, error>>
    /\ UNCHANGED mailvars

\* send(csvfile_to_recipients(csvfile, email_field), batch_size, dry_run): the
\* generator has not run yet.
SendCsv(fields, rows, email_field, batch_size, dry_run) ==
    /\ pc = "idle"
    /\ input' = [kind |-> "csv", recipients |-> <<>>, fields |-> fields,
                 rows |-> rows, email_field |-> email_field,
                 batch_size |-> batch_size, dry_run |-> dry_run]
    /\ it' = [kind |-> "csv", items |-> rows, fields |-> fields,
              email_field |-> email_field, gpc |-> "start"]
    /\ zl' = [n |-> batch_size, dead |-> {}]
    /\ pc' = "loop"
    /\ result' = <<>>
    /\ UNCHANGED <<sent, batches, error>>
    /\ UNCHANGED mailvars

\* Variant of SendBatch that does not look at dry_run.
SendBatchAlways(z) ==
    /\ z.kind = "batch"
    /\ Real(z.batch) # <<>>
    /\ it' = z.it
    /\ zl' = [zl EXCEPT !.dead = z.dead]
    /\ batches' = Append(batches, z.batch)
    /\ sent' = Append(sent, Message(z.batch))
    /\ result' = Append(result, Response(Message(z.batch)))
    /\ UNCHANGED <<input, pc, error>>
    /\ UNCHANGED mailvars

\* One pass of the loop over batch z.batch: its message is composed and,
\* unless dry_run, handed to the transport, which accepts it.
SendBatch(z) ==
    /\ z.kind = "batch"
    /\ Real(z.batch) # <<>>
    /\ it' = z.it
    /\ zl' = [zl EXCEPT !.dead = z.dead]
    /\ batches' = Append(batches, z.batch)
    /\ IF input.dry_run
       THEN UNCHANGED <<sent, result>>
       ELSE \E m \in {Message(z.batch)} :
               /\ sent' = Append(sent, m)
               /\ result' = Append(result, Response(m))
    /\ UNCHANGED <<input, pc, error>>
    /\ UNCHANGED mailvars

\* Variant of SendBatchTransportError that goes on to the next batch.
SendBatchTransportErrorContinue(z, e) ==
    /\ z.kind = "batch"
    /\ Real(z.batch) # <<>>
    /\ ~input.dry_run
    /\ it' = z.it
    /\ zl' = [zl EXCEPT !.dead = z.dead]
    /\ batches' = Append(batches, z.batch)
    /\ sent' = Append(sent, Message(z.batch))
    /\ error' = e
    /\ UNCHANGED <<input, result, pc>>
    /\ UNCHANGED mailvars

\* One pass of the loop in which the transport raises e: the exception leaves
\* send.
SendBatchTransportError(z, e) ==
    /\ z.kind = "batch"
    /\ Real(z.batch) # <<>>
    /\ ~input.dry_run
    /\ it' = z.it
    /\ zl' = [zl EXCEPT !.dead = z.dead]
    /\ batches' = Append(batches, z.batch)
    /\ sent' = Append(sent, Message(z.batch))
    /\ pc' = "raised"
    /\ error' = e
    /\ UNCHANGED <<input, result>>
    /\ UNCHANGED mailvars

\* How the interpreter takes a StopIteration raised inside the generator:
\* with PEP 479 as a RuntimeError, without it as the end of the generator.
GeneratorStops == {"RuntimeError", "stop"}

\* The iterator raises while a batch is collected, or the batch holds no
\* recipient and zip(*()) cannot be unpacked: the exception leaves send.
SendRaise(z) ==
    /\ \/ z.kind = "error"
       \/ z.kind = "genstop" /\ "RuntimeError" \in GeneratorStops
       \/ z.kind = "batch" /\ Real(z.batch) = <<>>
    /\ it' = z.it
    /\ zl' = [zl EXCEPT !.dead = z.dead]
    /\ batches' = IF z.kind = "batch" THEN Append(batches, z.batch) ELSE batches
    /\ error' = CASE z.kind = "error" -> z.err
                  [] z.kind = "genstop" -> "RuntimeError"
                  [] OTHER -> "ValueError"
    /\ pc' = "raised"
    /\ UNCHANGED <<input, result, sent>>
    /\ UNCHANGED mailvars

\* grouper is exhausted: send returns result.
SendReturn(z) ==
    /\ \/ z.kind = "stop"
       \/ z.kind = "genstop" /\ "stop" \in GeneratorStops
    /\ it' = z.it
    /\ zl' = [zl EXCEPT !.dead = z.dead]
    /\ pc' = "returned"
    /\ UNCHANGED <<input, result, sent, batches, error>>
    /\ UNCHANGED mailvars

\* A send is started on a list or on a csv file.
SendStart ==
    /\ pc = "idle"
    /\ \/ \E recipients \in SeqsUpTo(RecipientPool, MaxLen),
             batch_size \in 1..MaxBatch, dry_run \in BOOLEAN :
             SendList(recipients, batch_size, dry_run)
       \/ \E fields \in Headers, email_field \in EmailFieldArgs,
             batch_size \in 1..MaxBatch, dry_run \in BOOLEAN :
             \E rows \in SeqsUpTo(RowsOf(fields), MaxRows) :
                 SendCsv(fields, rows, email_field, batch_size, dry_run)

\* One pass of the loop `for batch in grouper(recipients, batch_size)`.
SendStep ==
    /\ pc = "loop"
    /\ \E z \in {GrouperNext(it, zl)} :
          \/ SendBatch(z)
          \/ \E e \in TransportErrors : SendBatchTransportError(z, e)
          \/ SendRaise(z)
          \/ SendReturn(z)

Next == SendStart \/ SendStep

Spec == Init /\ [][Next]_vars

------------------------------------------------------------------------------
\* Properties of send and of csvfile_to_recipients (Spec).

RECURSIVE Flatten(_)
\* The recipients of a sequence of batches, fill values dropped, in order.
Flatten(bs) == IF bs = <<>> THEN <<>> ELSE Real(Head(bs)) \o Flatten(Tail(bs))

\* The recipients grouper has handed to the loop so far.
Yielded == Flatten(batches)

\* ceil(a / b)
CeilDiv(a, b) == (a + b - 1) \div b

\* C1: when send has consumed a list of L recipients in batches of n, there
\* were ceil(L/n) batches of n slots each; every batch but the last is full,
\* the last holds L mod n recipients (n when n divides L) followed by None
\* only; and the recipients of the batches, in order, are the list.
C1_GrouperBatches ==
    (input.kind = "list" /\ pc = "returned") =>
        LET L == Len(input.recipients)
            n == input.batch_size
            k == IF L % n = 0 THEN n ELSE L % n
        IN  /\ Len(batches) = CeilDiv(L, n)
            /\ \A i \in 1..Len(batches) : Len(batches[i]) = n
            /\ \A i \in 1..(Len(batches) - 1) :
                  \A j \in 1..n : batches[i][j] # Fill
            /\ L > 0 =>
                  /\ \A j \in 1..k : batches[Len(batches)][j] # Fill
                  /\ \A j \in (k + 1)..n : batches[Len(batches)][j] = Fill
            /\ Yielded = input.recipients

\* Four recipients were sent in batches of three: the second batch holds one
\* recipient and two None.
C1_Witness ==
    /\ input.kind = "list"
    /\ pc = "returned"
    /\ Len(input.recipients) = 4
    /\ input.batch_size = 3
    /\ Len(batches) = 2
    /\ batches[2][2] = Fill

\* C2: with dry_run the transport is never called and the result stays empty;
\* send on a list does not fail and, when it returns, has consumed the whole
\* list batch by batch.
C2_DryRunNoTransport ==
    (input.kind # "none" /\ input.dry_run) =>
        /\ sent = <<>>
        /\ result = <<>>
        /\ input.kind = "list" =>
              /\ pc # "raised"
              /\ pc = "returned" =>
                    (it.items = <<>> /\ Yielded = input.recipients)

\* A dry run over four recipients returned after two batches or more.
C2_Witness ==
    /\ input.kind = "list"
    /\ input.dry_run
    /\ pc = "returned"
    /\ Len(input.recipients) = 4
    /\ Len(batches) >= 2

\* C3: without dry_run, the i-th transport call carries the i-th batch; every
\* call but a failed one has its response in result, in order; a transport
\* failure is the last call made: it leaves send with the transport's
\* exception, and nothing is sent after send was left.
C3_TransportInOrderNoRetry ==
    /\ []((input.kind # "none" /\ ~input.dry_run) =>
            /\ Len(sent) = Len(batches)
            /\ \A i \in 1..Len(sent) :
                  /\ sent[i].to = [j \in 1..Len(Real(batches[i])) |->
                                      [name  |-> Real(batches[i])[j].name,
                                       email |-> Real(batches[i])[j].email,
                                       type  |-> "to"]]
                  /\ i <= Len(result) =>
                        result[i] = [j \in 1..Len(sent[i].to) |->
                                        [email |-> sent[i].to[j].email,
                                         status |-> "sent"]]
            /\ IF error \in TransportErrors
               THEN pc = "raised" /\ Len(result) = Len(sent) - 1
               ELSE Len(result) = Len(sent))
    /\ [][pc = "raised" => (sent' = sent /\ error' = error /\ pc' = pc)]_vars

\* The second transport call failed while recipients were still waiting.
C3_Witness ==
    /\ pc = "raised"
    /\ error \in TransportErrors
    /\ Len(sent) = 2
    /\ Len(result) = 1
    /\ it.items # <<>>

\* No field of the file's first data row matches the email pattern.
NoFieldMatches ==
    /\ Len(input.rows) >= 1
    /\ \A i \in 1..Len(input.rows[1]) : ~MatchAt(input.rows[1][i], 1)

\* The supplied email_field is not a field of the header.
FieldAbsent ==
    /\ input.email_field.given
    /\ \A i \in 1..Len(input.fields) : input.fields[i] # input.email_field.value

\* C4 as claimed: for every file, when no email_field is supplied and no
\* field of the first data row matches, or when the supplied email_field is
\* not a field of the header, send fails and no transport call is made.
C4_AsClaimed ==
    ( /\ input.kind = "csv"
      /\ \/ ~input.email_field.given /\ NoFieldMatches
         \/ FieldAbsent )
    => (sent = <<>> /\ pc # "returned")

\* C4: for a file with at least one data row, when no email_field is supplied
\* and no field of the first data row matches, or when the supplied
\* email_field is neither a field of the header nor an attribute of every
\* tuple, send fails and no transport call is made.
C4_SchemaErrorBeforeTransport ==
    ( /\ input.kind = "csv"
      /\ Len(input.rows) >= 1
      /\ \/ ~input.email_field.given /\ NoFieldMatches
         \/ FieldAbsent /\ input.email_field.value \notin TupleAttrs )
    => /\ sent = <<>>
       /\ result = <<>>
       /\ pc # "returned"
       /\ pc = "raised" => error \in {"Exception", "AttributeError", "TypeError"}

\* The email field was named but is no field of the header: send was left
\* with AttributeError on the first of two rows, outside a dry run.
C4_Witness ==
    /\ input.kind = "csv"
    /\ FieldAbsent
    /\ ~input.dry_run
    /\ Len(input.rows) = 2
    /\ pc = "raised"
    /\ error = "AttributeError"

\* Every data row has as many cells as the header has fields.
RowsWellFormed ==
    \A i \in 1..Len(input.rows) : Len(input.rows[i]) = Len(input.fields)

\* The position, among the header's fields, of the field that decides the
\* email: the supplied one, or the first whose value in the first data row
\* matches; 0 when there is none.
ResolvedIndex ==
    IF input.email_field.given
    THEN IF \E i \in 1..Len(input.fields) : input.fields[i] = input.email_field.value
         THEN CHOOSE i \in 1..Len(input.fields) :
                  input.fields[i] = input.email_field.value
         ELSE 0
    ELSE IF Len(input.rows) >= 1 /\ Len(input.rows[1]) = Len(input.fields)
            /\ \E i \in 1..Len(input.fields) : MatchAt(input.rows[1][i], 1)
         THEN CHOOSE i \in 1..Len(input.fields) :
                  /\ MatchAt(input.rows[1][i], 1)
                  /\ \A j \in 1..(i - 1) : ~MatchAt(input.rows[1][j], 1)
         ELSE 0

\* C5: for a file whose rows are well formed and whose email field resolves,
\* the recipients yielded are built from the data rows in row order, the i-th
\* with the i-th row's value of the email field; the generator does not fail,
\* and when send returns it has yielded one recipient per row.
C5_OneRecipientPerRow ==
    (input.kind = "csv" /\ RowsWellFormed /\ ResolvedIndex # 0) =>
        /\ Len(Yielded) <= Len(input.rows)
        /\ \A i \in 1..Len(Yielded) :
              /\ Yielded[i].email = input.rows[i][ResolvedIndex]
              /\ \A c \in 1..Len(input.fields) :
                    input.fields[c] = KeyFirstName =>
                        Yielded[i].first_name = Present(input.rows[i][c])
        /\ pc = "returned" => Len(Yielded) = Len(input.rows)
        /\ pc = "raised" => error \in TransportErrors

\* Two different rows were read with the email field detected, and send
\* returned.
C5_Witness ==
    /\ input.kind = "csv"
    /\ ~input.email_field.given
    /\ ~input.dry_run
    /\ pc = "returned"
    /\ Len(input.rows) = 2
    /\ input.rows[1] # input.rows[2]
    /\ Len(Yielded) = 2

\* The merge vars of recipient r named Upper(field).
VarsNamed(r, field) ==
    {j \in 1..Len(r.merge_vars) : r.merge_vars[j].name = Upper(field)}

\* C6 as claimed: every yielded recipient has exactly one merge var per
\* header column, named by the upper-cased field and holding the row's value
\* of that column, and its email is the row's value of the resolved field.
C6_AsClaimed ==
    (input.kind = "csv") =>
        \A i \in 1..Len(Yielded) :
            /\ Len(Yielded[i].merge_vars) = Len(input.fields)
            /\ \A c \in 1..Len(input.fields) :
                  /\ Cardinality(VarsNamed(Yielded[i], input.fields[c])) = 1
                  /\ \A j \in VarsNamed(Yielded[i], input.fields[c]) :
                        Yielded[i].merge_vars[j].content = input.rows[i][c]

\* The header's columns other than the one named email.
OtherColumns == {c \in 1..Len(input.fields) : input.fields[c] # KeyEmail}

\* C6: every yielded recipient has exactly one merge var per header column
\* other than a column named email, named by the upper-cased field and
\* holding the row's value of that column, and no other merge var; its email
\* is the row's value of the resolved email field.
C6_OtherColumnsBecomeMergeVars ==
    (input.kind = "csv") =>
        \A i \in 1..Len(Yielded) :
            /\ Len(Yielded[i].merge_vars) = Cardinality(OtherColumns)
            /\ \A c \in OtherColumns :
                  /\ Cardinality(VarsNamed(Yielded[i], input.fields[c])) = 1
                  /\ \A j \in VarsNamed(Yielded[i], input.fields[c]) :
                        Yielded[i].merge_vars[j].content = input.rows[i][c]
            /\ VarsNamed(Yielded[i], KeyEmail) = {}
            /\ ResolvedIndex # 0 =>
                  Yielded[i].email = input.rows[i][ResolvedIndex]

\* The header has a column named email, and the email field detected is the
\* other column: two recipients were yielded.
C6_Witness ==
    /\ input.kind = "csv"
    /\ input.fields = <<KeyEmail, KeyFirstName>>
    /\ ~input.email_field.given
    /\ it.email_field = Present(KeyFirstName)
    /\ Len(Yielded) = 2

\* The value contains a match of the pattern somewhere.
ContainsMatch(s) == \E start \in 1..Len(s) : MatchAt(s, start)

\* The generator has read the first data row to detect the email field.
Detected ==
    /\ input.kind = "csv"
    /\ ~input.email_field.given
    /\ it.gpc # "start"
    /\ Len(input.rows) >= 1
    /\ Len(input.rows[1]) = Len(input.fields)

\* C7 as claimed: the email field detected is the first field whose value in
\* the first data row contains a match of the pattern anywhere.
C7_AsClaimed ==
    Detected =>
        \A i \in 1..Len(input.fields) :
            ( /\ ContainsMatch(input.rows[1][i])
              /\ \A j \in 1..(i - 1) : ~ContainsMatch(input.rows[1][j]) )
            => it.email_field = Present(input.fields[i])

\* C7: the email field detected is the first field, in header order, whose
\* value in the first data row matches the pattern from its first character
\* on (the match need not reach the end of the value); every recipient
\* yielded takes its email from that field, and the field is not detected
\* again.
C7_FirstFieldMatchingAtStart ==
    /\ [](Detected =>
            \A i \in 1..Len(input.fields) :
                ( /\ MatchAt(input.rows[1][i], 1)
                  /\ \A j \in 1..(i - 1) : ~MatchAt(input.rows[1][j], 1) )
                => /\ it.email_field = Present(input.fields[i])
                   /\ \A k \in 1..Len(Yielded) :
                         Yielded[k].email = input.rows[k][i])
    /\ [][(Detected /\ it.email_field.given) =>
             it'.email_field = it.email_field]_vars

\* The first row's first value has an address after a leading @ and its
\* second value is an address: the second field was detected, and the second
\* row, whose first value is an address, took its email from the second
\* field too.
C7_Witness ==
    /\ Detected
    /\ input.rows = <<<<ValueAtFirst, ValueEmail>>, <<ValueEmail, ValuePlain>>>>
    /\ it.email_field = Present(input.fields[2])
    /\ Len(Yielded) = 2
    /\ Yielded[2].email = ValuePlain

------------------------------------------------------------------------------
\* Properties of the Mail object (SpecMail).

\* C8: remove_global_merge_var(name) raises when no stored entry is named
\* upper(name), and remove_image(key) raises when key is not in images; in
\* both cases global_merge_vars and images are left as they were.
C8_LookupErrorsAreFatal ==
    [][/\ ( /\ call'.op = "remove_global_merge_var"
            /\ ~\E i \in 1..Len(merge_vars) :
                   merge_vars[i].name = Upper(call'.name) )
          => (err' # "none" /\ merge_vars' = merge_vars /\ images' = images)
       /\ ( /\ call'.op = "remove_image"
            /\ call'.name \notin DOMAIN images )
          => (err' # "none" /\ merge_vars' = merge_vars /\ images' = images)
      ]_vars

\* A failed remove_global_merge_var on a non-empty list, after a failed
\* remove_image.
C8_Witness ==
    /\ call.op = "remove_global_merge_var"
    /\ err = "ValueError"
    /\ Len(merge_vars) > 0
    /\ \E h \in 1..Len(history) :
          history[h].call.op = "remove_image" /\ history[h].err = "KeyError"

\* C9: every stored name is upper-cased; add_global_merge_var appends one
\* entry after the existing ones; remove_global_merge_var(x), x in any letter
\* case, succeeds when an entry is named upper(x) and then deletes exactly one
\* such entry, the others keeping their values and order.
C9_MergeVarsUpperOrdered ==
    /\ [](\A i \in 1..Len(merge_vars) :
             merge_vars[i].name = Upper(merge_vars[i].name))
    /\ [][/\ call'.op = "add_global_merge_var" =>
               /\ Len(merge_vars') = Len(merge_vars) + 1
               /\ SubSeq(merge_vars', 1, Len(merge_vars)) = merge_vars
               /\ merge_vars'[Len(merge_vars')].name = Upper(call'.name)
               /\ merge_vars'[Len(merge_vars')].content = call'.content
          /\ ( /\ call'.op = "remove_global_merge_var"
               /\ \E i \in 1..Len(merge_vars) :
                      merge_vars[i].name = Upper(call'.name) )
             => /\ err' = "none"
                /\ \E i \in 1..Len(merge_vars) :
                      /\ merge_vars[i].name = Upper(call'.name)
                      /\ merge_vars' = RemoveAt(merge_vars, i)
         ]_vars

\* "test" and "a-t" were added and "Test" removed: exactly the other is left.
C9_Witness ==
    /\ call.op = "remove_global_merge_var"
    /\ call.name = <<"T","e","s","t">>
    /\ err = "none"
    /\ ncalls = 3
    /\ merge_vars = <<[name |-> <<"A","-","T">>, content |-> "another-value"]>>

\* The key an image call is about.
HistoryKey(h) ==
    IF h.call.op = "add_image" THEN ImageKey(h.call.name) ELSE h.call.name

\* Positions of the successful image calls about key k.
HistoryOf(k) ==
    {h \in 1..Len(history) :
        history[h].err = "none" /\ HistoryKey(history[h]) = k}

\* C10: images holds exactly the keys whose last successful call is an add;
\* each entry's name is its key, and its content and type are those of that
\* add.
C10_ImagesMatchHistory ==
    \A k \in (DOMAIN images) \cup {HistoryKey(history[h]) : h \in 1..Len(history)} :
        LET hs == HistoryOf(k)
            last == CHOOSE h \in hs : \A g \in hs : g <= h
        IN  IF hs # {} /\ history[last].call.op = "add_image"
            THEN LET c == history[last].call
                 IN  /\ k \in DOMAIN images
                     /\ images[k].name = k
                     /\ images[k].content =
                           B64Encode(IF c.file.given THEN c.file.data
                                     ELSE DiskRead(c.name))
                     /\ images[k].type =
                           (IF c.mimetype # None THEN c.mimetype
                            ELSE GuessType(c.name))
            ELSE k \notin DOMAIN images

\* image1 was added twice, the second time from img/image1.png on disk, and
\* image2 was then removed without having been added.
C10_Witness ==
    /\ Len(history) = 3
    /\ history[1].call.name = ImageA /\ history[1].err = "none"
    /\ history[2].call = Call("add_image", ImageB, "", NoFile, None)
    /\ history[3].call.op = "remove_image" /\ history[3].err = "KeyError"
    /\ DOMAIN images = {<<"image1">>}
    /\ images[<<"image1">>].type = "image/png"

====
